---- MODULE Spec2Model ----
(***************************************************************************)
(* A model of costs_report.py: the monthly cloud-costs report.             *)
(*                                                                         *)
(* Numbers.  The program computes with Python floats.  The model keeps     *)
(* every amount as an exact fraction <<n, d>> (d > 0, lowest terms) of a   *)
(* cent: 100.00 dollars is <<10000, 1>>.  Sums, means, the 0.95 / 1.05     *)
(* thresholds and the percentages are computed exactly; the rounding       *)
(* error of IEEE doubles is not modelled.  "%.2f" rounds to the nearest    *)
(* cent; the input sets below hold no value that lies exactly between two  *)
(* cents, where the binary representation would decide.  A percentage     *)
(* int(x * 100) whose exact value is a whole number can come out one less  *)
(* in doubles (previous 100.00, this month 93.00 prints 6%); the input     *)
(* sets below hold amounts on which the program, run on the same inputs,   *)
(* prints what exact arithmetic gives.                                     *)
(*                                                                         *)
(* Strings are sequences of one-character strings.  A dict is a sequence   *)
(* of <<key, value>> pairs with distinct keys, in insertion order.         *)
(***************************************************************************)
EXTENDS Integers, Sequences, FiniteSets, TLC

VARIABLES
    pc,                 \* position of the run / of the function under test
    v,                  \* pprint_currency: the argument
    formatted,          \* pprint_currency(v)
    reformatted,        \* pprint_currency(pprint_currency(v))
    label,              \* _render_row: the label
    per_month_bills,    \* _render_row: the AccountBills dict
    row,                \* _render_row's result
    today,              \* datetime.date.today(), <<year, month, day>>
    four_months_ago,    \* get_last_four_months_of_bills: the window start
    result,             \* get_last_four_months_of_bills: the returned dict
    billing_data,       \* main / create_billing_table: the BillingData dict
    total_bills,        \* create_billing_table: the synthetic Total dict
    table,              \* create_billing_table: the rows handed to tabulate
    running_in_lambda,  \* main: the run mode
    queried,            \* main: the account ids queried so far, in order
    tables_built,       \* main: calls of create_billing_table that returned
    printed,            \* main: tables printed to standard output
    secret_reads,       \* main: reads of the webhook secret
    posts,              \* main: POSTs sent to the webhook
    error               \* "" or the name of the uncaught exception

fmtVars == <<v, formatted, reformatted>>
rowVars == <<label, per_month_bills, row>>
windowVars == <<four_months_ago, result>>
tableVars == <<total_bills, table, tables_built>>
outVars == <<printed, secret_reads, posts>>

vars == <<pc, fmtVars, rowVars, today, windowVars, billing_data, tableVars,
          running_in_lambda, queried, outVars, error>>

\* The variables of a function that is not under way hold nothing.
FmtUnused == v = <<>> /\ formatted = <<>> /\ reformatted = <<>>
RowUnused == label = <<>> /\ per_month_bills = <<>> /\ row = <<>>
WindowUnused == four_months_ago = <<>> /\ result = <<>>
NothingBuilt == total_bills = <<>> /\ table = <<>> /\ tables_built = 0
NothingOut == printed = 0 /\ secret_reads = 0 /\ posts = 0
MainUnused ==
    /\ billing_data = <<>>
    /\ running_in_lambda = FALSE
    /\ queried = <<>>
    /\ NothingBuilt
    /\ NothingOut

-----------------------------------------------------------------------------
(* Exact arithmetic on fractions <<n, d>>, d > 0.                          *)

Abs(x) == IF x < 0 THEN -x ELSE x

RECURSIVE GCD(_, _)
GCD(a, b) == IF b = 0 THEN a ELSE GCD(b, a % b)

Rat(n, d) ==
    LET s == IF d < 0 THEN -1 ELSE 1
        g == GCD(Abs(n), Abs(d))
    IN  <<(s * n) \div g, (s * d) \div g>>

Num(c) == <<c, 1>>
RAdd(a, b) == Rat(a[1] * b[2] + b[1] * a[2], a[2] * b[2])
RSub(a, b) == Rat(a[1] * b[2] - b[1] * a[2], a[2] * b[2])
RMul(a, b) == Rat(a[1] * b[1], a[2] * b[2])
RDiv(a, b) == Rat(a[1] * b[2], a[2] * b[1])
RGt(a, b) == a[1] * b[2] > b[1] * a[2]
RLe(a, b) == a[1] * b[2] <= b[1] * a[2]

\* int(x): truncation toward zero.
int(x) == IF x[1] >= 0 THEN x[1] \div x[2] ELSE -((-x[1]) \div x[2])

RECURSIVE Sum(_)
Sum(values) ==
    IF values = <<>> THEN Num(0) ELSE RAdd(Head(values), Sum(Tail(values)))

ZeroDivisionError == "ZeroDivisionError"

\* A function's outcome: its value, or the exception it raised.
Return(x) == [exc |-> "", val |-> x]
Raise(e) == [exc |-> e, val |-> <<>>]

\* sum(values) / len(values)
average(values) ==
    IF Len(values) = 0
    THEN Raise(ZeroDivisionError)
    ELSE Return(RDiv(Sum(values), Num(Len(values))))

-----------------------------------------------------------------------------
(* Strings and number formatting.                                          *)

Digits == <<"0", "1", "2", "3", "4", "5", "6", "7", "8", "9">>

IsDigit(c) == \E k \in 1..10 : Digits[k] = c

RECURSIVE NatToStr(_)
NatToStr(n) ==
    IF n < 10 THEN <<Digits[n + 1]>>
    ELSE NatToStr(n \div 10) \o <<Digits[(n % 10) + 1]>>

\* "%d" % m
IntToStr(m) == IF m < 0 THEN <<"-">> \o NatToStr(-m) ELSE NatToStr(m)

\* f"{m:2d}": right-aligned in a field of width 2
Pad2d(m) == IF Len(IntToStr(m)) < 2 THEN <<" ">> \o IntToStr(m) ELSE IntToStr(m)

\* The nearest integer to n/d for n >= 0 (a tie goes to the even one).
RoundNat(n, d) ==
    LET q == n \div d
        r == n % d
    IN  IF 2 * r > d \/ (2 * r = d /\ q % 2 = 1) THEN q + 1 ELSE q

\* "%.2f" % x, for x a number of cents: the sign of x is kept even when the
\* digits round to zero ("-0.00").
Fmt2f(x) ==
    LET c == RoundNat(Abs(x[1]), x[2])
    IN  (IF x[1] < 0 THEN <<"-">> ELSE <<>>)
        \o NatToStr(c \div 100)
        \o <<".", Digits[((c \div 10) % 10) + 1], Digits[(c % 10) + 1]>>

DigitValue(c) == CHOOSE k \in 0..9 : Digits[k + 1] = c

\* The number the digits of s spell, its other characters left out.
RECURSIVE NumberSpelled(_)
NumberSpelled(s) ==
    IF s = <<>> THEN 0
    ELSE IF IsDigit(s[Len(s)])
         THEN 10 * NumberSpelled(SubSeq(s, 1, Len(s) - 1)) + DigitValue(s[Len(s)])
         ELSE NumberSpelled(SubSeq(s, 1, Len(s) - 1))

\* float(s.replace(",", "")) for s = [-]digits.dd, in cents (-0.00 is 0).
float_of_cell(s) ==
    LET plain == SelectSeq(s, LAMBDA c : c # ",")
    IN  IF plain[1] = "-" THEN -NumberSpelled(plain) ELSE NumberSpelled(plain)

\* The length of the run of digits of s that starts at position p.
RECURSIVE DigitRun(_, _)
DigitRun(s, p) ==
    IF p <= Len(s) /\ IsDigit(s[p]) THEN 1 + DigitRun(s, p + 1) ELSE 0

\* The substitution with the pattern ^(\d+)(\d{3}), which admits no sign.
ReSubUnsigned(orig) ==
    LET run == DigitRun(orig, 1)
        cut == run - 3
    IN  IF run >= 4
        THEN SubSeq(orig, 1, cut) \o <<",">> \o SubSeq(orig, cut + 1, Len(orig))
        ELSE orig

\* re.sub(r"^(-?\d+)(\d{3})", r"\g<1>,\g<2>", orig): the pattern matches at the
\* start only, an optional "-" and then a run of at least 4 digits; the greedy
\* \d+ leaves the run's last 3 digits to the second group.
ReSub(orig) ==
    LET sign == IF Len(orig) > 0 /\ orig[1] = "-" THEN 1 ELSE 0
        run  == DigitRun(orig, sign + 1)
        cut  == sign + run - 3
    IN  IF run >= 4
        THEN SubSeq(orig, 1, cut) \o <<",">> \o SubSeq(orig, cut + 1, Len(orig))
        ELSE orig

RECURSIVE pprint_currency_str(_)
pprint_currency_str(orig) ==
    LET new == ReSub(orig)
    IN  IF orig = new THEN new ELSE pprint_currency_str(new)

\* The argument is tagged with its Python type.
Float(x) == [type |-> "float", val |-> x]
Str(s) == [type |-> "str", val |-> s]

pprint_currency(a) ==
    pprint_currency_str(IF a.type = "float" THEN Fmt2f(a.val) ELSE a.val)

-----------------------------------------------------------------------------
(* pprint_currency on its own.                                             *)

MaxExp == 7

RECURSIVE Pow10(_)
Pow10(k) == IF k = 0 THEN 1 ELSE 10 * Pow10(k - 1)

\* Amounts in cents: 0.00, 0.01, 0.09, 0.12, 0.10, ..., up to 7 trailing
\* digits, each also with a last digit of 1, of both signs; the amounts of
\* the documentation; and thirds of a cent, which "%.2f" has to round.
FmtInputs ==
    {Num(s * (lead * Pow10(k) + unit)) :
        s \in {1, -1}, lead \in {0, 1, 9, 12}, k \in 0..MaxExp, unit \in {0, 1}}
    \cup {Num(123456750), Num(-4210), Num(123450), Num(-123450)}
    \cup {Rat(s * n, 3) : s \in {1, -1}, n \in {1, 2, 100, 299999, 300001}}

InitFmt ==
    /\ pc = "fmt"
    /\ v \in FmtInputs
    /\ formatted = <<>>
    /\ reformatted = <<>>
    /\ today = <<>>
    /\ error = ""
    /\ RowUnused /\ WindowUnused /\ MainUnused

\* pprint_currency(v) for a float v
Format ==
    /\ pc = "fmt"
    /\ formatted' = pprint_currency(Float(v))
    /\ pc' = "fmt_again"
    /\ UNCHANGED <<v, reformatted, rowVars, today, windowVars, billing_data,
                   tableVars, running_in_lambda, queried, outVars, error>>

\* pprint_currency applied to the string it returned
FormatAgain ==
    /\ pc = "fmt_again"
    /\ reformatted' = pprint_currency(Str(formatted))
    /\ pc' = "fmt_done"
    /\ UNCHANGED <<v, formatted, rowVars, today, windowVars, billing_data,
                   tableVars, running_in_lambda, queried, outVars, error>>

NextFmt == Format \/ FormatAgain

SpecFmt == InitFmt /\ [][NextFmt]_vars

-----------------------------------------------------------------------------
(* _render_row.                                                            *)

\* Tuples compare lexicographically: (year, month).
KeyLt(a, b) == a[1] < b[1] \/ (a[1] = b[1] /\ a[2] < b[2])

\* items, a sequence sorted by key, with item put in its place.
RECURSIVE InsertByKey(_, _)
InsertByKey(items, item) ==
    IF items = <<>> THEN <<item>>
    ELSE IF KeyLt(item[1], Head(items)[1]) THEN <<item>> \o items
    ELSE <<Head(items)>> \o InsertByKey(Tail(items), item)

\* sorted(d.items()): the keys of a dict are distinct, so the key alone
\* decides the order.
RECURSIVE sorted_items(_)
sorted_items(d) ==
    IF d = <<>> THEN <<>>
    ELSE InsertByKey(sorted_items(SubSeq(d, 1, Len(d) - 1)), d[Len(d)])

Values(items) == [k \in 1..Len(items) |-> items[k][2]]

\* A filter that keeps every amount, zero included.
AnyAmount(x) == TRUE

NonZero(x) == x[1] # 0
Positive(x) == x[1] > 0

Ratio095 == Rat(95, 100)
Ratio105 == Rat(105, 100)

DownCell(reduction) == <<"↓", " ">> \o Pad2d(reduction) \o <<"%">>
UpCell(extra_spend) == <<"↟", "↟", " ">> \o Pad2d(extra_spend) \o <<"%">>

\* The two comparisons tried in the other order.
TrendUpFirst(P, T) ==
    IF RLe(RMul(P, Ratio105), T) THEN "up"
    ELSE IF RGt(RMul(P, Ratio095), T) THEN "down"
    ELSE "flat"

\* The second comparison made strict.
TrendStrictUp(P, T) ==
    IF RGt(RMul(P, Ratio095), T) THEN "down"
    ELSE IF RGt(T, RMul(P, Ratio105)) THEN "up"
    ELSE "flat"

\* The branch of _render_row taken for a previous average P and a this-month
\* total T; dividing by P = 0 raises in either of the first two.
Trend(P, T) ==
    IF RGt(RMul(P, Ratio095), T) THEN "down"
    ELSE IF RLe(RMul(P, Ratio105), T) THEN "up"
    ELSE "flat"

_render_row(lbl, bills) ==
    LET items == sorted_items(bills)
    IN  IF items = <<>> THEN Raise("ValueError") ELSE
        LET prev_months == SubSeq(items, 1, Len(items) - 1)
            this_month_total == items[Len(items)][2]
            avg == average(SelectSeq(Values(prev_months), NonZero))
        IN  IF avg.exc # "" THEN avg ELSE
            LET prev_month_average == avg.val
                trend == Trend(prev_month_average, this_month_total)
                hundred == Num(100)
                one == Num(1)
            IN  IF trend # "flat" /\ prev_month_average[1] = 0
                THEN Raise(ZeroDivisionError)
                ELSE
                LET quotient == RDiv(this_month_total, prev_month_average)
                    gain == IF trend = "down"
                            THEN DownCell(int(RMul(RSub(one, quotient), hundred)))
                            ELSE <<>>
                    loss == IF trend = "up"
                            THEN UpCell(int(RMul(RSub(quotient, one), hundred)))
                            ELSE <<>>
                IN  Return(<<lbl,
                             pprint_currency(Float(prev_month_average)),
                             pprint_currency(Float(this_month_total)),
                             gain,
                             loss>>)

-----------------------------------------------------------------------------
(* _render_row on its own.                                                 *)

MaxMonths == 4

\* The k consecutive months that end at month `last`, oldest first.
MonthsEnding(last, k) ==
    [j \in 1..k |->
        LET t == last[1] * 12 + (last[2] - 1) - (k - j)
        IN  <<t \div 12, (t % 12) + 1>>]

Reverse(s) == [j \in 1..Len(s) |-> s[Len(s) + 1 - j]]

\* Amounts in cents.  A spending account: previous months of 100.00, 400.00
\* or no data (0); this month on the boundaries of the 5% band around 100.00,
\* far from it, or a credit.  An account in credit: the same, negated.
SpendPrev == {0, 10000, 40000}
SpendThis == {0, 5000, 9499, 9500, 10000, 10500, 10501, 25000, -5050}
CreditPrev == {0, -10000}
CreditThis == {0, -5050, -9499, -9500, -10000, -10500, -10501, -15050, 9499}

\* The dict of k months ending at `last` with the amounts p (previous months,
\* oldest first) and t (this month), inserted oldest or newest first.  The
\* inputs are the bills of 2..MaxMonths months that end in February or in
\* April 2024.
Bills(last, k, p, t, newest_first) ==
    LET chrono == [j \in 1..k |->
                     <<MonthsEnding(last, k)[j], Num(IF j = k THEN t ELSE p[j])>>]
    IN  IF newest_first THEN Reverse(chrono) ELSE chrono

InitRow ==
    /\ pc = "row"
    /\ label = "x"
    /\ \E last \in {<<2024, 2>>, <<2024, 4>>}, k \in 2..MaxMonths,
          in_credit \in BOOLEAN, newest_first \in BOOLEAN :
          \E p \in [1..(k - 1) -> IF in_credit THEN CreditPrev ELSE SpendPrev],
             t \in IF in_credit THEN CreditThis ELSE SpendThis :
             per_month_bills = Bills(last, k, p, t, newest_first)
    /\ row = <<>>
    /\ today = <<>>
    /\ error = ""
    /\ FmtUnused /\ WindowUnused /\ MainUnused

\* row = _render_row(label, per_month_bills), or the exception it raises
RenderRow ==
    /\ pc = "row"
    /\ LET r == _render_row(label, per_month_bills)
       IN  /\ row' = r.val
           /\ error' = r.exc
           /\ pc' = IF r.exc = "" THEN "row_done" ELSE "raised"
    /\ UNCHANGED <<fmtVars, label, per_month_bills, today, windowVars,
                   billing_data, tableVars, running_in_lambda, queried,
                   outVars>>

NextRow == RenderRow

SpecRow == InitRow /\ [][NextRow]_vars

-----------------------------------------------------------------------------
(* create_billing_table.                                                   *)

\* rows, sorted by falling key, with r put behind the rows whose key is not
\* smaller: sorted(..., reverse=True) keeps equal rows in their first order.
RECURSIVE InsertDescending(_, _)
InsertDescending(rows, r) ==
    IF rows = <<>> THEN <<r>>
    ELSE IF float_of_cell(Head(rows)[3]) >= float_of_cell(r[3])
         THEN <<Head(rows)>> \o InsertDescending(Tail(rows), r)
         ELSE <<r>> \o rows

\* The same sort without reverse=True.
RECURSIVE InsertAscending(_, _)
InsertAscending(rows, r) ==
    IF rows = <<>> THEN <<r>>
    ELSE IF float_of_cell(Head(rows)[3]) <= float_of_cell(r[3])
         THEN <<Head(rows)>> \o InsertAscending(Tail(rows), r)
         ELSE <<r>> \o rows

RECURSIVE sorted_rows_ascending(_)
sorted_rows_ascending(rows) ==
    IF rows = <<>> THEN <<>>
    ELSE InsertAscending(sorted_rows_ascending(SubSeq(rows, 1, Len(rows) - 1)),
                         rows[Len(rows)])

RECURSIVE sorted_rows(_)
sorted_rows(rows) ==
    IF rows = <<>> THEN <<>>
    ELSE InsertDescending(sorted_rows(SubSeq(rows, 1, Len(rows) - 1)),
                          rows[Len(rows)])

HasKey(d, key) == \E k \in 1..Len(d) : d[k][1] = key

\* d[key] += x, for a defaultdict(int)
AddTo(d, key, x) ==
    IF HasKey(d, key)
    THEN [k \in 1..Len(d) |->
            IF d[k][1] = key THEN <<key, RAdd(d[k][2], x)>> ELSE d[k]]
    ELSE Append(d, <<key, x>>)

\* The backfill applied to every amount that is not positive.
BackfilledNonPositive(bills, amount) ==
    IF amount[1] <= 0
    THEN average(SelectSeq(Values(bills), Positive))
    ELSE Return(amount)

\* What create_billing_table adds to total_bills for one month of an account.
Backfilled(bills, amount) ==
    IF amount[1] = 0
    THEN average(SelectSeq(Values(bills), Positive))
    ELSE Return(amount)

\* The loop over one account's months, from its k-th; acc is total_bills.
RECURSIVE AddMonths(_, _, _)
AddMonths(acc, bills, k) ==
    IF k > Len(bills) THEN Return(acc)
    ELSE LET x == Backfilled(bills, bills[k][2])
         IN  IF x.exc # "" THEN x
             ELSE AddMonths(AddTo(acc, bills[k][1], x.val), bills, k + 1)

\* The loop over the accounts, from the k-th.
RECURSIVE AddAccounts(_, _, _)
AddAccounts(acc, data, k) ==
    IF k > Len(data) THEN Return(acc)
    ELSE LET a == AddMonths(acc, data[k][2], 1)
         IN  IF a.exc # "" THEN a ELSE AddAccounts(a.val, data, k + 1)

TotalBillsOf(data) == AddAccounts(<<>>, data, 1)

\* The comprehension with each failing row caught and left out.
RECURSIVE RenderRowsSkipping(_, _)
RenderRowsSkipping(data, k) ==
    IF k > Len(data) THEN Return(<<>>)
    ELSE LET r == _render_row(data[k][1], data[k][2])
             rest == RenderRowsSkipping(data, k + 1)
         IN  IF r.exc # "" THEN rest
             ELSE Return(<<r.val>> \o rest.val)

\* [_render_row(name, bills) for name, bills in billing_data.items()], from
\* the k-th account: the first exception ends the comprehension.
RECURSIVE RenderRows(_, _)
RenderRows(data, k) ==
    IF k > Len(data) THEN Return(<<>>)
    ELSE LET r == _render_row(data[k][1], data[k][2])
         IN  IF r.exc # "" THEN r
             ELSE LET rest == RenderRows(data, k + 1)
                  IN  IF rest.exc # "" THEN rest
                      ELSE Return(<<r.val>> \o rest.val)

Dashes(n) == [k \in 1..n |-> "-"]
Separator == <<Dashes(13), Dashes(19), Dashes(16), Dashes(6), Dashes(6)>>
TOTAL == "TOTAL"

\* The rows create_billing_table hands to tabulate, or the exception raised.
create_billing_table(data) ==
    LET rows == RenderRows(data, 1)
    IN  IF rows.exc # "" THEN rows ELSE
        LET totals == TotalBillsOf(data)
        IN  IF totals.exc # "" THEN totals ELSE
            LET total_row == _render_row(TOTAL, totals.val)
            IN  IF total_row.exc # "" THEN total_row
                ELSE Return(sorted_rows(rows.val)
                            \o <<Separator>> \o <<total_row.val>>)

-----------------------------------------------------------------------------
(* get_last_four_months_of_bills.                                          *)

\* date.replace(day=1)
this_month_start_of(date) == <<date[1], date[2], 1>>

\* The start of the requested period.
four_months_ago_of(start) ==
    IF start[2] > 4
    THEN <<start[1], start[2] - 4, 1>>
    ELSE <<start[1] - 1, 12 - start[2], 1>>

MonthIndex(date) == date[1] * 12 + (date[2] - 1)
MonthOfIndex(t) == <<t \div 12, (t % 12) + 1>>

\* The months of ResultsByTime for a MONTHLY request: from the month of Start
\* up to, not including, the month of End (Cost Explorer's End is exclusive).
ResultsByTime(start, end) ==
    [j \in 1..(MonthIndex(end) - MonthIndex(start)) |->
        MonthOfIndex(MonthIndex(start) + j - 1)]

MonthsReturned(date) ==
    ResultsByTime(four_months_ago_of(this_month_start_of(date)),
                  this_month_start_of(date))

\* Amounts the provider reports for a month, in cents.
ProviderAmounts == {0, 1000}

\* The dicts get_last_four_months_of_bills can return on `date`.
BillsReturned(date) ==
    LET months == MonthsReturned(date)
    IN  { [k \in 1..Len(months) |-> <<months[k], Num(a[k])>>] :
            a \in [1..Len(months) -> ProviderAmounts] }

MaxYears == 2

\* Every month of the years from 2023, on its first day and late in it.
Dates ==
    {<<y, m, d>> : y \in 2023..(2023 + MaxYears - 1), m \in 1..12,
                   d \in {1, 28}}

InitWindow ==
    /\ pc = "window"
    /\ today \in Dates
    /\ four_months_ago = <<>>
    /\ result = <<>>
    /\ error = ""
    /\ FmtUnused /\ RowUnused /\ MainUnused

\* result = get_last_four_months_of_bills(account_id=...)
GetLastFourMonths ==
    /\ pc = "window"
    /\ four_months_ago' = four_months_ago_of(this_month_start_of(today))
    /\ result' \in BillsReturned(today)
    /\ pc' = "window_done"
    /\ UNCHANGED <<fmtVars, rowVars, today, billing_data, tableVars,
                   running_in_lambda, queried, outVars, error>>

NextWindow == GetLastFourMonths

SpecWindow == InitWindow /\ [][NextWindow]_vars

-----------------------------------------------------------------------------
(* main.                                                                   *)

\* The (account_id, account_name) pairs main goes through.
Accounts ==
    << <<"271119165879", "STEM prod">>,
       <<"044436578076", "STEM staging">>,
       <<"370771240857", "Kano prod operations">>,
       <<"214499854237", "Kano data">>,
       <<"169316547066", "Kano services sandbox">>,
       <<"648433460441", "STEM communicator dev">>,
       <<"802610295201", "Kano PC">>,
       <<"245070913529", "Kano sandbox">>,
       <<"657385723538", "Kano backups">>,
       <<"184856031229", "Kano OS">>,
       <<"602638832636", "Kano ops/admin">>,
       <<"446458378801", "Kano ecommerce">> >>

\* The run is modelled for the first MaxAccounts accounts of the list.
MaxAccounts == 2
Configured == SubSeq(Accounts, 1, MaxAccounts)

\* d[key] = value
Put(d, key, value) ==
    IF HasKey(d, key)
    THEN [k \in 1..Len(d) |-> IF d[k][1] = key THEN <<key, value>> ELSE d[k]]
    ELSE Append(d, <<key, value>>)

\* The status of the webhook's response: urlopen raises HTTPError for an error
\* status, and the assert fails for any other status that is not 200.
Statuses == {200, 204, 500}

\* A run in January (the window crosses the year) and one in June.
RunDates == {<<2024, 1, 15>>, <<2024, 6, 15>>}

Init ==
    /\ pc = "query"
    /\ today \in RunDates
    /\ running_in_lambda \in BOOLEAN
    /\ billing_data = <<>>
    /\ queried = <<>>
    /\ NothingBuilt
    /\ NothingOut
    /\ error = ""
    /\ FmtUnused /\ RowUnused /\ WindowUnused

\* One turn of the loop: billing_data[account_name] =
\* get_last_four_months_of_bills(account_id=account_id); the provider's
\* error, if any, ends the run.
QueryAccount ==
    /\ pc = "query"
    /\ Len(queried) < Len(Configured)
    /\ LET account == Configured[Len(queried) + 1]
       IN  /\ queried' = Append(queried, account[1])
           /\ \/ /\ \E bills \in BillsReturned(today) :
                       billing_data' = Put(billing_data, account[2], bills)
                 /\ UNCHANGED <<pc, error>>
              \/ /\ pc' = "raised"
                 /\ error' = "ClientError"
                 /\ UNCHANGED billing_data
    /\ UNCHANGED <<fmtVars, rowVars, today, windowVars, tableVars,
                   running_in_lambda, outVars>>

\* table = create_billing_table(billing_data), once the loop has ended.
BuildTable ==
    /\ pc = "query"
    /\ Len(queried) = Len(Configured)
    /\ LET t == create_billing_table(billing_data)
       IN  IF t.exc # ""
           THEN /\ pc' = "raised"
                /\ error' = t.exc
                /\ UNCHANGED tableVars
           ELSE /\ total_bills' = TotalBillsOf(billing_data).val
                /\ table' = t.val
                /\ tables_built' = tables_built + 1
                /\ pc' = IF running_in_lambda THEN "secret" ELSE "print"
                /\ UNCHANGED error
    /\ UNCHANGED <<fmtVars, rowVars, today, windowVars, billing_data,
                   running_in_lambda, queried, outVars>>

\* The interactive branch without its return: the run goes on to deliver.
PrintTableNoReturn ==
    /\ pc = "print"
    /\ printed' = printed + 1
    /\ pc' = "secret"
    /\ UNCHANGED <<fmtVars, rowVars, today, windowVars, billing_data,
                   tableVars, running_in_lambda, queried, secret_reads,
                   posts, error>>

\* if not running_in_lambda: print(table); return
PrintTable ==
    /\ pc = "print"
    /\ printed' = printed + 1
    /\ pc' = "done"
    /\ UNCHANGED <<fmtVars, rowVars, today, windowVars, billing_data,
                   tableVars, running_in_lambda, queried, secret_reads,
                   posts, error>>

\* webhook_url = get_secret_string(...): the secret store's error, if any,
\* ends the run.
ReadSecret ==
    /\ pc = "secret"
    /\ secret_reads' = secret_reads + 1
    /\ \/ pc' = "post" /\ UNCHANGED error
       \/ pc' = "raised" /\ error' = "ClientError"
    /\ UNCHANGED <<fmtVars, rowVars, today, windowVars, billing_data,
                   tableVars, running_in_lambda, queried, printed, posts>>

\* resp = urlopen(req); assert resp.status == 200
Post ==
    /\ pc = "post"
    /\ posts' = posts + 1
    /\ \E status \in Statuses :
          IF status = 200 THEN pc' = "done" /\ UNCHANGED error
          ELSE /\ pc' = "raised"
               /\ error' = IF status >= 400 THEN "HTTPError" ELSE "AssertionError"
    /\ UNCHANGED <<fmtVars, rowVars, today, windowVars, billing_data,
                   tableVars, running_in_lambda, queried, printed,
                   secret_reads>>

Next == QueryAccount \/ BuildTable \/ PrintTable \/ ReadSecret \/ Post

Spec == Init /\ [][Next]_vars

-----------------------------------------------------------------------------
(* create_billing_table on its own.                                        *)

TableMonths == 4

\* A dict of the k months ending in April 2024, with the amounts a (cents).
AccountBills(k, a) ==
    [j \in 1..k |-> <<MonthsEnding(<<2024, 4>>, k)[j], Num(a[j])>>]

\* The amounts of account "A", which spends 10.00, has a credit of 20.00 or
\* has no data, and of account "B", which spends 5.00 or has no data.
AmountsA == {0, 1000, -2000}
AmountsB == {0, 500}
\* This-month amounts to sort: 50.00, 999.99, 1,000.00 and 1,200.00.
SortThis == {5000, 99999, 100000, 120000}

\* Either one or two accounts over 3..TableMonths months, or three accounts
\* "a", "b", "c" with a previous month of 2,400.00 and this-month amounts to
\* sort, in every combination and order.
InitTable ==
    /\ pc = "table"
    /\ \/ \E k \in 3..TableMonths : \E a \in [1..k -> AmountsA] :
             \/ billing_data = << <<"A", AccountBills(k, a)>> >>
             \/ \E b \in [1..k -> AmountsB] :
                   billing_data = << <<"A", AccountBills(k, a)>>,
                                     <<"B", AccountBills(k, b)>> >>
       \/ \E t \in [1..3 -> SortThis] :
             billing_data =
                [n \in 1..3 |-> <<(<<"a", "b", "c">>)[n],
                                  AccountBills(2, <<240000, t[n]>>)>>]
    /\ queried = <<>>
    /\ running_in_lambda = FALSE
    /\ today = <<>>
    /\ NothingBuilt
    /\ NothingOut
    /\ error = ""
    /\ FmtUnused /\ RowUnused /\ WindowUnused

\* table = create_billing_table(billing_data), or the exception it raises
CreateBillingTable ==
    /\ pc = "table"
    /\ LET t == create_billing_table(billing_data)
       IN  IF t.exc # ""
           THEN /\ pc' = "raised"
                /\ error' = t.exc
                /\ UNCHANGED tableVars
           ELSE /\ total_bills' = TotalBillsOf(billing_data).val
                /\ table' = t.val
                /\ tables_built' = tables_built + 1
                /\ pc' = "table_done"
                /\ UNCHANGED error
    /\ UNCHANGED <<fmtVars, rowVars, today, windowVars, billing_data,
                   running_in_lambda, queried, outVars>>

NextTable == CreateBillingTable

SpecTable == InitTable /\ [][NextTable]_vars

-----------------------------------------------------------------------------
(* Properties of pprint_currency.                                          *)

\* s spells the amount x (in cents) to the nearest cent, with a point and two
\* decimals, a comma exactly before each trailing group of 3 digits of the
\* integer part, no needless leading zero, and "-" in front iff x < 0.
CurrencyShape(s, x) ==
    LET neg  == x[1] < 0
        body == IF neg THEN Tail(s) ELSE s
        L    == Len(body)
        n    == L - 3
    IN  /\ Len(s) >= 4
        /\ neg <=> s[1] = "-"
        /\ n >= 1
        /\ body[L - 2] = "." /\ IsDigit(body[L - 1]) /\ IsDigit(body[L])
        /\ n % 4 # 0
        /\ \A k \in 1..n :
              IF (n - k + 1) % 4 = 0 THEN body[k] = "," ELSE IsDigit(body[k])
        /\ n > 1 => body[1] # "0"
        /\ 2 * Abs(NumberSpelled(body) * x[2] - Abs(x[1])) <= x[2]

-----------------------------------------------------------------------------
(* Properties of _render_row.                                              *)

Range(s) == {s[k] : k \in 1..Len(s)}

\* The entry of the chronologically latest month, and the earlier entries
\* whose amount is not zero.
LatestEntry(bills) ==
    CHOOSE e \in Range(bills) :
        \A o \in Range(bills) :
            o[1][1] < e[1][1] \/ (o[1][1] = e[1][1] /\ o[1][2] <= e[1][2])

EarlierNonZero(bills) ==
    {e \in Range(bills) : e # LatestEntry(bills) /\ e[2][1] # 0}

RECURSIVE SumOfEntries(_)
SumOfEntries(es) ==
    IF es = {} THEN Num(0)
    ELSE LET e == CHOOSE x \in es : TRUE
         IN  RAdd(e[2], SumOfEntries(es \ {e}))

MeanOfEntries(es) == RDiv(SumOfEntries(es), Num(Cardinality(es)))

\* Whole-number division rounding down, and rounding toward zero.
FloorDiv(n, d) == n \div d
TruncDiv(n, d) == IF n >= 0 THEN n \div d ELSE -((-n) \div d)

\* The row the classification rules give for previous average P and this
\* month T (P # 0), the percentage being cut to a whole number by Cut.
Classified(r, P, T, Cut(_, _)) ==
    LET lhs  == P[1] * T[2]     \* P and T over the common denominator
        rhs  == T[1] * P[2]     \* P[2] * T[2] > 0
        sgn  == IF P[1] < 0 THEN -1 ELSE 1
    IN  IF 95 * lhs > 100 * rhs
        THEN /\ r[4] = DownCell(Cut(sgn * (lhs - rhs) * 100, sgn * lhs))
             /\ r[5] = <<>>
        ELSE IF 105 * lhs <= 100 * rhs
        THEN /\ r[5] = UpCell(Cut(sgn * (rhs - lhs) * 100, sgn * lhs))
             /\ r[4] = <<>>
        ELSE r[4] = <<>> /\ r[5] = <<>>

RowRendered ==
    /\ pc = "row_done"
    /\ Len(per_month_bills) >= 2
    /\ EarlierNonZero(per_month_bills) # {}
    /\ MeanOfEntries(EarlierNonZero(per_month_bills))[1] # 0

PreviousAverageIs100 ==
    /\ RowRendered
    /\ MeanOfEntries(EarlierNonZero(per_month_bills)) = Num(10000)

ThisMonthIs(cents) == LatestEntry(per_month_bills)[2] = Num(cents)

C3_AverageOfEarlierNonZero ==
    /\ (pc = "row_done" /\ EarlierNonZero(per_month_bills) # {}) =>
          /\ row[2] = pprint_currency(
                        Float(MeanOfEntries(EarlierNonZero(per_month_bills))))
          /\ row[3] = pprint_currency(Float(LatestEntry(per_month_bills)[2]))
    /\ (pc = "row_done"
        /\ Range(per_month_bills) =
             {<<<<2024, 1>>, Num(0)>>, <<<<2024, 2>>, Num(10000)>>,
              <<<<2024, 3>>, Num(10000)>>, <<<<2024, 4>>, Num(5000)>>}) =>
          row = <<label,
                  <<"1", "0", "0", ".", "0", "0">>,
                  <<"5", "0", ".", "0", "0">>,
                  <<"↓", " ", "5", "0", "%">>,
                  <<>> >>

\* Months that cross the year, inserted newest first, one of them without
\* data: December 2023 (0), January 2024 (400.00), February 2024 (50.00).
C3_Witness ==
    /\ pc = "row_done"
    /\ per_month_bills = << <<<<2024, 2>>, Num(5000)>>,
                            <<<<2024, 1>>, Num(40000)>>,
                            <<<<2023, 12>>, Num(0)>> >>
    /\ row[2] = <<"4", "0", "0", ".", "0", "0">>
    /\ row[3] = <<"5", "0", ".", "0", "0">>

-----------------------------------------------------------------------------
(* Properties of create_billing_table.                                     *)

Months(data) == UNION {{e[1] : e \in Range(a[2])} : a \in Range(data)}

NonZeroEntries(bills) == {e \in Range(bills) : e[2][1] # 0}

\* An account's amount for a month, a zero amount replaced by the mean of the
\* account's non-zero amounts.
AmountOrNonZeroMean(bills, e) ==
    IF e[2][1] # 0 THEN e[2] ELSE MeanOfEntries(NonZeroEntries(bills))

\* The sum over the accounts of their amounts for `month`, zeros replaced.
RECURSIVE TotalFor(_, _)
TotalFor(accounts, month) ==
    IF accounts = {} THEN Num(0)
    ELSE LET a == CHOOSE x \in accounts : TRUE
             here == {e \in Range(a[2]) : e[1] = month}
             rest == TotalFor(accounts \ {a}, month)
         IN  IF here = {} THEN rest
             ELSE RAdd(AmountOrNonZeroMean(a[2], CHOOSE e \in here : TRUE), rest)

TotalBuilt == tables_built = 1

\* C4 as stated: the Total has, for each month observed, the sum over the
\* accounts of the account's amount, an amount of zero being replaced by the
\* mean of that account's non-zero amounts.
C4_TotalBackfillsNonZeroMean ==
    TotalBuilt =>
        /\ {e[1] : e \in Range(total_bills)} = Months(billing_data)
        /\ \A e \in Range(total_bills) :
              e[2] = TotalFor(Range(billing_data), e[1])

AccountNames == {a[1] : a \in Range(billing_data)}

\* C5: the table has one row per account, in non-increasing order of the
\* number in the this-month cell, then one dashed separator row, then the
\* TOTAL row; the last two take no part in the sort.
C5_RowsSortedThenTotal ==
    TotalBuilt =>
        LET n == Len(billing_data)
        IN  /\ Len(table) = n + 2
            /\ {table[k][1] : k \in 1..n} = AccountNames
            /\ Cardinality(AccountNames) = n
            /\ \A k \in 1..(n - 1) :
                  float_of_cell(table[k][3]) >= float_of_cell(table[k + 1][3])
            /\ table[n + 1] = Separator
            /\ table[n + 2][1] = TOTAL

\* Accounts given in the order 50.00, 1,200.00, 999.99 come out as 1,200.00,
\* 999.99, 50.00, with the larger TOTAL last.
C5_Witness ==
    /\ TotalBuilt
    /\ Len(billing_data) = 3
    /\ billing_data[1][2][2][2] = Num(5000)
    /\ billing_data[2][2][2][2] = Num(120000)
    /\ billing_data[3][2][2][2] = Num(99999)
    /\ <<table[1][1], table[2][1], table[3][1]>> = <<"b", "c", "a">>
    /\ table[1][3] = <<"1", ",", "2", "0", "0", ".", "0", "0">>
    /\ table[5][3] = <<"2", ",", "2", "4", "9", ".", "9", "9">>

OneAccountAllNonZero ==
    /\ TotalBuilt
    /\ Len(billing_data) = 1
    /\ \A e \in Range(billing_data[1][2]) : e[2][1] # 0

\* C8: with a single account whose amounts are all non-zero, the TOTAL row's
\* previous-average, this-month and indicator cells are those of the
\* account's row; with 10.00 in each of 4 months both rows show "10.00",
\* "10.00" and no indicator.
C8_TotalMirrorsSingleAccount ==
    OneAccountAllNonZero =>
        /\ SubSeq(table[3], 2, 5) = SubSeq(table[1], 2, 5)
        /\ (/\ Len(billing_data[1][2]) = 4
            /\ \A e \in Range(billing_data[1][2]) : e[2] = Num(1000)) =>
              SubSeq(table[1], 2, 5) =
                 << <<"1", "0", ".", "0", "0">>, <<"1", "0", ".", "0", "0">>,
                    <<>>, <<>> >>

\* A single account with three months of 10.00 and a credit of 20.00 in the
\* last: both rows show a decrease of 300%.
C8_Witness ==
    /\ OneAccountAllNonZero
    /\ Values(billing_data[1][2]) = <<Num(1000), Num(1000), Num(1000), Num(-2000)>>
    /\ table[3][3] = <<"-", "2", "0", ".", "0", "0">>
    /\ table[3][4] = <<"↓", " ", "3", "0", "0", "%">>

-----------------------------------------------------------------------------
(* Properties of get_last_four_months_of_bills.                            *)

ResultMonths == [k \in 1..Len(result) |-> result[k][1]]

\* C7 as stated: on every date the result holds exactly 4 consecutive
\* calendar months, the last 4 that end at the current month (read with the
\* current month as the last one returned, or as the exclusive end of the
\* period), also when the window crosses a year boundary.
C7_FourConsecutiveMonths ==
    pc = "window_done" =>
        \/ ResultMonths = MonthsEnding(<<today[1], today[2]>>, 4)
        \/ ResultMonths = MonthsEnding(MonthOfIndex(MonthIndex(today) - 1), 4)

-----------------------------------------------------------------------------
(* Properties of main.                                                     *)

ConfiguredIds == [k \in 1..Len(Configured) |-> Configured[k][1]]

\* C9: the provider is queried once per configured account, in list order,
\* before the table is built; the table is built once, after all queries.  An
\* interactive run prints the table and ends without reading the secret or
\* posting; a hosted run posts once, after the table is built, and a status
\* other than 200 ends the run with a failure, without another POST.
C9_LinearRun ==
    /\ queried = SubSeq(ConfiguredIds, 1, Len(queried))
    /\ tables_built <= 1
    /\ tables_built = 1 => Len(queried) = Len(Configured)
    /\ (printed > 0 \/ secret_reads > 0 \/ posts > 0) => tables_built = 1
    /\ posts > 0 => secret_reads = 1
    /\ ~running_in_lambda => secret_reads = 0 /\ posts = 0 /\ printed <= 1
    /\ running_in_lambda => printed = 0 /\ secret_reads <= 1 /\ posts <= 1
    /\ pc = "done" => IF running_in_lambda THEN posts = 1 ELSE printed = 1
    /\ (posts = 1 /\ pc # "done") =>
          pc = "raised" /\ error \in {"HTTPError", "AssertionError"}

\* A hosted run whose POST was answered 204: it has failed after one POST.
C9_Witness ==
    /\ running_in_lambda
    /\ pc = "raised"
    /\ error = "AssertionError"
    /\ posts = 1
    /\ Len(queried) = Len(Configured)
    /\ tables_built = 1

AllButLatest(bills) == {e \in Range(bills) : e # LatestEntry(bills)}

\* All previous-month totals of the account are zero, or it has a zero month
\* and no non-zero month at all.
NoUsableMonths(bills) ==
    \/ \A e \in AllButLatest(bills) : e[2][1] = 0
    \/ /\ \E e \in Range(bills) : e[2][1] = 0
       /\ \A e \in Range(bills) : e[2][1] = 0

AllBillsIn == Len(billing_data) = Len(Configured)

\* C10: when some account has no usable months, the division by zero is not
\* caught: no table is returned, and main neither prints nor delivers.
C10_DivisionByZeroAborts ==
    (AllBillsIn /\ \E a \in Range(billing_data) : NoUsableMonths(a[2])) =>
        /\ table = <<>> /\ tables_built = 0
        /\ printed = 0 /\ secret_reads = 0 /\ posts = 0
        /\ pc \in {"query", "raised"}
        /\ pc = "raised" => error = ZeroDivisionError

\* A hosted run in June whose second account reported nothing but zeros.
C10_Witness ==
    /\ running_in_lambda
    /\ pc = "raised"
    /\ error = ZeroDivisionError
    /\ AllBillsIn
    /\ \A e \in Range(billing_data[1][2]) : e[2] = Num(1000)
    /\ Len(billing_data[2][2]) = 4
    /\ \A e \in Range(billing_data[2][2]) : e[2] = Num(0)

====
